---- MODULE Spec2Model ----
(***************************************************************************)
(* Model of snapatac2-core/src/preprocessing/qc.rs: the Fragment record    *)
(* (to_insertions, Display, FromStr), the FragmentSummary accumulator,     *)
(* read_tss / TssRegions and the TSSe accumulator.                         *)
(*                                                                         *)
(* Strings are sequences of one-character strings, so that formatting and  *)
(* parsing are computed character by character.  Option<T> is a sequence   *)
(* of length 0 (None) or 1 (Some).  An f64 is modelled as an exact         *)
(* rational, or one of the IEEE special values NaN, +inf, -inf.            *)
(***************************************************************************)
EXTENDS Integers, Sequences, FiniteSets, TLC

VARIABLES
    annotation,         \* the rows of the annotation file given to read_tss
    promoters,          \* TSSe.promoters : &TssRegions (built once, read-only)
    stream,             \* the name of the fragment stream fed to the TSSe instances
    tsse,               \* accumulator name -> TSSe {counts, n_overlapping, n_total}
    fed,                \* history: accumulator name -> bag of fragments it has absorbed
    nops,               \* number of operations performed so far
    mitochondrial_dna,  \* FragmentSummary.mitochondrial_dna
    summary,            \* FragmentSummary counters
    fedlog,             \* history: the fragments passed to FragmentSummary::update
    qc,                 \* Option<QualityControl>: the value returned by get_qc
    frag,               \* Option<Fragment>: the fragment being formatted / converted
    line,               \* Option<String>: the text line being parsed
    parsed,             \* Option<Result<Fragment, ParseError>>
    insertions          \* Option<SmallVec<[GenomicRange; 2]>>

vars == <<annotation, promoters, stream, tsse, fed, nops, mitochondrial_dna, summary, fedlog,
          qc, frag, line, parsed, insertions>>

tsseVars == <<annotation, promoters, stream, tsse, fed>>
summaryVars == <<mitochondrial_dna, summary, fedlog, qc>>
recordVars == <<frag, line, parsed, insertions>>

----------------------------------------------------------------------------
(* Bounds of the model *)

\* largest fragment start fed to a TSSe in the small configurations
MaxPos == 3
\* number of add / add_from operations performed on the TSSe accumulators
MaxOps == 3
\* number of fragments passed to one FragmentSummary
MaxUpdates == 3
\* largest duplicate multiplicity (Fragment.count) fed to a FragmentSummary
MaxCount == 2
\* largest coordinate of the fragments that are formatted and converted
MaxCoord == 11
\* largest number of tab-separated fields of an input line
MaxFields == 6

----------------------------------------------------------------------------
(* Generic helpers *)

None == <<>>
Some(x) == <<x>>
IsSome(o) == Len(o) = 1
Unwrap(o) == o[1]

\* u64::saturating_sub
SaturatingSub(a, b) == IF a < b THEN 0 ELSE a - b

Chr1 == <<"c", "h", "r", "1">>
Chr2 == <<"c", "h", "r", "2">>
ChrM == <<"c", "h", "r", "M">>
Chrom1 == <<"c", "h", "r", "o", "m", "1">>
Transcript == <<"t", "r", "a", "n", "s", "c", "r", "i", "p", "t">>
Gene == <<"g", "e", "n", "e">>

----------------------------------------------------------------------------
(* Fragment and insertions *)

\* struct Fragment; Fragment::new sets barcode None, count 1, strand None
Fragment(chrom, start, end, barcode, count, strand) ==
    [chrom |-> chrom, start |-> start, end |-> end,
     barcode |-> barcode, count |-> count, strand |-> strand]

FragmentNew(chrom, start, end) == Fragment(chrom, start, end, None, 1, None)

GenomicRange(chrom, start, end) == [chrom |-> chrom, start |-> start, end |-> end]

to_insertions_fwd_only(f) ==
    <<GenomicRange(f.chrom, f.start, f.start + 1)>>

\* Fragment::to_insertions
to_insertions(f) ==
    IF f.strand = None
    THEN <<GenomicRange(f.chrom, f.start, f.start + 1),
           GenomicRange(f.chrom, f.end - 1, f.end)>>
    ELSE IF f.strand = Some("Forward")
    THEN <<GenomicRange(f.chrom, f.start, f.start + 1)>>
    ELSE <<GenomicRange(f.chrom, f.end - 1, f.end)>>

----------------------------------------------------------------------------
(* Display and FromStr of Fragment *)

Tab == "\t"
Dot == <<".">>

Digits == <<"0", "1", "2", "3", "4", "5", "6", "7", "8", "9">>
IsDigit(c) == \E d \in 1..Len(Digits) : Digits[d] = c
DigitVal(c) == (CHOOSE d \in 1..Len(Digits) : Digits[d] = c) - 1

\* Display of an unsigned integer: its decimal digits
RECURSIVE FormatNat(_)
FormatNat(n) ==
    IF n < Len(Digits) THEN <<Digits[n + 1]>>
    ELSE FormatNat(n \div Len(Digits)) \o <<Digits[(n % Len(Digits)) + 1]>>

RECURSIVE DigitsValue(_, _)
DigitsValue(s, acc) ==
    IF s = <<>> THEN acc
    ELSE DigitsValue(Tail(s), acc * Len(Digits) + DigitVal(Head(s)))

\* lexical::parse of an unsigned integer: None is the Err case
ParseNat(s) ==
    IF s = <<>> \/ (\E i \in 1..Len(s) : ~IsDigit(s[i])) THEN None
    ELSE Some(DigitsValue(s, 0))

\* Display of Strand
FormatStrand(st) == IF st = "Forward" THEN <<"+">> ELSE <<"-">>

\* FromStr of Strand: None is the Err case
ParseStrand(s) ==
    IF s = <<"+">> THEN Some("Forward")
    ELSE IF s = <<"-">> THEN Some("Reverse")
    ELSE None

Display_strand_always(f) ==
    f.chrom \o <<Tab>> \o FormatNat(f.start) \o <<Tab>> \o FormatNat(f.end) \o <<Tab>>
      \o (IF IsSome(f.barcode) THEN Unwrap(f.barcode) ELSE Dot) \o <<Tab>>
      \o FormatNat(f.count)
      \o <<Tab>> \o (IF IsSome(f.strand) THEN FormatStrand(Unwrap(f.strand)) ELSE Dot)

\* impl Display for Fragment
Display(f) ==
    f.chrom \o <<Tab>> \o FormatNat(f.start) \o <<Tab>> \o FormatNat(f.end) \o <<Tab>>
      \o (IF IsSome(f.barcode) THEN Unwrap(f.barcode) ELSE Dot) \o <<Tab>>
      \o FormatNat(f.count)
      \o (IF IsSome(f.strand) THEN <<Tab>> \o FormatStrand(Unwrap(f.strand)) ELSE <<>>)

\* str::split('\t'): the fields of a line, at least one
RECURSIVE SplitFrom(_, _)
SplitFrom(s, cur) ==
    IF s = <<>> THEN <<cur>>
    ELSE IF Head(s) = Tab THEN <<cur>> \o SplitFrom(Tail(s), <<>>)
    ELSE SplitFrom(Tail(s), Append(cur, Head(s)))

Split(s) == SplitFrom(s, <<>>)

Ok(v) == [ok |-> TRUE, val |-> v]
Err(e) == [ok |-> FALSE, err |-> e]

\* the count and strand fields of from_str, once the barcode is known
from_str_tail(fields, chrom, start, end, barcode) ==
    LET n == Len(fields)
        count == IF n < 5 \/ fields[5] = Dot THEN Some(1) ELSE ParseNat(fields[5])
        strand == IF n < 6 \/ fields[6] = Dot THEN Some(None)
                  ELSE IF IsSome(ParseStrand(fields[6])) THEN Some(ParseStrand(fields[6]))
                  ELSE None
    IN  IF ~IsSome(count) THEN Err("InvalidStartPosition")
        ELSE IF ~IsSome(strand) THEN Err("InvalidStrand")
        ELSE Ok(Fragment(chrom, start, end, barcode, Unwrap(count), Unwrap(strand)))

from_str_barcode_optional(s) ==
    LET fields == Split(s)
        n == Len(fields)
    IN  IF n < 2 THEN Err("MissingStartPosition")
        ELSE IF ~IsSome(ParseNat(fields[2])) THEN Err("InvalidStartPosition")
        ELSE IF n < 3 THEN Err("MissingEndPosition")
        ELSE IF ~IsSome(ParseNat(fields[3])) THEN Err("InvalidEndPosition")
        ELSE from_str_tail(fields, fields[1], Unwrap(ParseNat(fields[2])),
                           Unwrap(ParseNat(fields[3])),
                           IF n < 4 \/ fields[4] = Dot THEN None ELSE Some(fields[4]))

\* impl FromStr for Fragment
from_str(s) ==
    LET fields == Split(s)
        n == Len(fields)
    IN  IF n < 1 THEN Err("MissingReferenceSequenceName")
        ELSE IF n < 2 THEN Err("MissingStartPosition")
        ELSE IF ~IsSome(ParseNat(fields[2])) THEN Err("InvalidStartPosition")
        ELSE IF n < 3 THEN Err("MissingEndPosition")
        ELSE IF ~IsSome(ParseNat(fields[3])) THEN Err("InvalidEndPosition")
        ELSE IF n < 4 THEN Err("MissingName")
        ELSE from_str_tail(fields, fields[1], Unwrap(ParseNat(fields[2])),
                           Unwrap(ParseNat(fields[3])),
                           IF fields[4] = Dot THEN None ELSE Some(fields[4]))

----------------------------------------------------------------------------
(* read_tss and TssRegions *)

\* one line of the annotation file, split on tabs (columns 0, 2, 3, 4, 6);
\* comment is TRUE when the line starts with '#'
Row(comment, chr, type, start, end, strand) ==
    [comment |-> comment, chr |-> chr, type |-> type,
     start |-> start, end |-> end, strand |-> strand]

\* the closure of read_tss: filter_map over one line
read_tss_line(r) ==
    IF r.comment THEN None
    ELSE IF r.type = Transcript
    THEN LET is_fwd == r.strand # <<"-">>
             tss == IF is_fwd THEN r.start - 1 ELSE r.end - 1
         IN  Some([chr |-> r.chr, tss |-> tss, is_fwd |-> is_fwd])
    ELSE None

RECURSIVE read_tss(_)
read_tss(rows) ==
    IF rows = <<>> THEN <<>>
    ELSE read_tss_line(Head(rows)) \o read_tss(Tail(rows))

promoter_short(t, window_size) ==
    [chrom |-> t.chr, start |-> SaturatingSub(t.tss, window_size),
     end |-> t.tss + window_size, is_fwd |-> t.is_fwd]

\* the closure of TssRegions::new: one promoter window with its orientation
promoter(t, window_size) ==
    [chrom |-> t.chr, start |-> SaturatingSub(t.tss, window_size),
     end |-> t.tss + window_size + 1, is_fwd |-> t.is_fwd]

\* TssRegions::new
TssRegionsNew(iter, window_size) ==
    [promoters |-> [k \in 1..Len(iter) |-> promoter(iter[k], window_size)],
     window_size |-> window_size]

\* TssRegions::len
TssRegionsLen(regions) == 2 * regions.window_size + 1

\* GIntervalMap::find: the windows overlapping a range, as indices into promoters
Overlaps(p, ins) == p.chrom = ins.chrom /\ p.start < ins.end /\ ins.start < p.end

find(regions, ins) ==
    SelectSeq([k \in 1..Len(regions.promoters) |-> k],
              LAMBDA k : Overlaps(regions.promoters[k], ins))

----------------------------------------------------------------------------
(* TSSe *)

\* TSSe::new
TSSeNew(regions) ==
    [counts |-> [k \in 0..(TssRegionsLen(regions) - 1) |-> 0],
     n_overlapping |-> 0, n_total |-> 0]

\* the histogram offset of an insertion in an overlapping window
pos(p, ins) ==
    IF p.is_fwd THEN ins.start - p.start ELSE p.end - 1 - ins.start

\* the inner for_each of TSSe::add: one increment per overlapping window
RECURSIVE add_windows(_, _, _, _)
add_windows(counts, regions, hits, ins) ==
    IF hits = <<>> THEN counts
    ELSE LET k == pos(regions.promoters[Head(hits)], ins)
         IN  add_windows([counts EXCEPT ![k] = @ + 1], regions, Tail(hits), ins)

add_insertion_per_window(t, regions, ins) ==
    LET hits == find(regions, ins)
    IN  [counts |-> add_windows(t.counts, regions, hits, ins),
         n_overlapping |-> t.n_overlapping + Len(hits),
         n_total |-> t.n_total + 1]

\* the outer closure of TSSe::add: one insertion
add_insertion(t, regions, ins) ==
    LET hits == find(regions, ins)
    IN  [counts |-> add_windows(t.counts, regions, hits, ins),
         n_overlapping |-> IF hits # <<>> THEN t.n_overlapping + 1 ELSE t.n_overlapping,
         n_total |-> t.n_total + 1]

RECURSIVE add_insertions(_, _, _)
add_insertions(t, regions, inss) ==
    IF inss = <<>> THEN t
    ELSE add_insertions(add_insertion(t, regions, Head(inss)), regions, Tail(inss))

\* TSSe::add
TSSeAdd(t, regions, f) == add_insertions(t, regions, to_insertions(f))

add_from_keeps_total(t, other) ==
    [counts |-> [k \in DOMAIN t.counts |->
                    IF k \in DOMAIN other.counts THEN t.counts[k] + other.counts[k]
                    ELSE t.counts[k]],
     n_overlapping |-> t.n_overlapping + other.n_overlapping,
     n_total |-> t.n_total]

add_from_drops_overlapping(t, other) ==
    [counts |-> [k \in DOMAIN t.counts |->
                    IF k \in DOMAIN other.counts THEN t.counts[k] + other.counts[k]
                    ELSE t.counts[k]],
     n_overlapping |-> other.n_overlapping,
     n_total |-> t.n_total + other.n_total]

\* TSSe::add_from
TSSeAddFrom(t, other) ==
    [counts |-> [k \in DOMAIN t.counts |->
                    IF k \in DOMAIN other.counts THEN t.counts[k] + other.counts[k]
                    ELSE t.counts[k]],
     n_overlapping |-> t.n_overlapping + other.n_overlapping,
     n_total |-> t.n_total + other.n_total]

\* f64 division of two unsigned integers converted to f64
FDiv(a, b) ==
    IF b = 0 THEN (IF a = 0 THEN [kind |-> "NaN"] ELSE [kind |-> "+inf"])
    ELSE [kind |-> "num", num |-> a, den |-> b]

\* the second component of TSSe::result
overlap_rate(t) == FDiv(t.n_overlapping, t.n_total)

----------------------------------------------------------------------------
(* FragmentSummary *)

\* FragmentSummary::new
FragmentSummaryNew ==
    [num_unique_fragment |-> 0, num_total_fragment |-> 0, num_mitochondrial |-> 0]

update_by_count(s, mito, f) ==
    IF f.chrom \in mito
    THEN [s EXCEPT !.num_total_fragment = @ + f.count, !.num_mitochondrial = @ + f.count]
    ELSE [s EXCEPT !.num_total_fragment = @ + f.count, !.num_unique_fragment = @ + f.count]

\* FragmentSummary::update
update(s, mito, f) ==
    IF f.chrom \in mito
    THEN [s EXCEPT !.num_total_fragment = @ + f.count, !.num_mitochondrial = @ + 1]
    ELSE [s EXCEPT !.num_total_fragment = @ + f.count, !.num_unique_fragment = @ + 1]

\* f64: 1.0 - x
OneMinus(x) ==
    IF x.kind = "NaN" THEN x
    ELSE IF x.kind = "+inf" THEN [kind |-> "-inf"]
    ELSE [kind |-> "num", num |-> x.den - x.num, den |-> x.den]

FDivGuarded(a, b) ==
    IF b = 0 THEN [kind |-> "num", num |-> 0, den |-> 1] ELSE FDiv(a, b)

get_qc_guarded(s) ==
    [num_unique_fragment |-> s.num_unique_fragment,
     frac_mitochondrial |->
        FDivGuarded(s.num_mitochondrial, s.num_unique_fragment + s.num_mitochondrial),
     frac_duplicated |->
        OneMinus(FDivGuarded(s.num_unique_fragment + s.num_mitochondrial, s.num_total_fragment))]

\* FragmentSummary::get_qc
get_qc(s) ==
    [num_unique_fragment |-> s.num_unique_fragment,
     frac_mitochondrial |->
        FDiv(s.num_mitochondrial, s.num_unique_fragment + s.num_mitochondrial),
     frac_duplicated |->
        OneMinus(FDiv(s.num_unique_fragment + s.num_mitochondrial, s.num_total_fragment))]

----------------------------------------------------------------------------
(* Inputs of the TSSe specifications *)

\* two partitions of a fragment stream; three accumulators to be merged
TwoAccs == {"A", "B"}
ThreeAccs == {"A", "B", "C"}
Accs == DOMAIN tsse

HalfWindows == {1, 2}
TranscriptStarts == {1, 3}

CommentRow == Row(TRUE, Chr1, Transcript, 1, 2, <<"+">>)
GeneRow == Row(FALSE, Chr1, Gene, 1, 2, <<"+">>)

TranscriptRows ==
    { Row(FALSE, Chr1, Transcript, s, s + 1, <<c>>) :
        s \in TranscriptStarts, c \in {"+", "-", "."} }

SmallAnnotations ==
    { <<CommentRow, GeneRow, t>> : t \in {r \in TranscriptRows : r.strand # <<".">>} }
    \cup { <<t1, t2>> : t1 \in {t \in TranscriptRows : t.strand = <<"+">>},
                        t2 \in {t \in TranscriptRows : t.strand = <<"-">>} }

SmallStream ==
    { Fragment(Chr1, s, s + 2, None, 1, st) :
        s \in 0..MaxPos, st \in {None, Some("Forward")} }
    \cup { Fragment(Chr1, 1, 3, None, 1, Some("Reverse")), FragmentNew(Chr2, 0, 2) }

\* the annotations and fragments of the single-accumulator specification
AddAnnotations ==
    SmallAnnotations
    \cup { <<t, GeneRow>> : t \in {r \in TranscriptRows : r.strand = <<".">>} }
    \cup { <<t, t>> : t \in {r \in TranscriptRows : r.strand = <<"+">>} }

AddStream ==
    { Fragment(Chr1, s, s + 2, None, 1, st) :
        s \in 0..MaxPos, st \in {None, Some("Forward"), Some("Reverse")} }
    \cup { FragmentNew(Chr2, 0, 2) }

\* one forward transcript at chrom1:1000-2000 (1-based)
E2EAnnotation == <<CommentRow, Row(FALSE, Chrom1, Transcript, 1000, 2000, <<"+">>)>>
E2EFragment == FragmentNew(Chrom1, 994, 1004)
E2EStream ==
    { E2EFragment,
      FragmentNew(Chrom1, 1004, 1006),
      Fragment(Chrom1, 999, 1010, None, 1, Some("Forward")),
      Fragment(Chrom1, 990, 1000, None, 1, Some("Reverse")),
      FragmentNew(Chr1, 994, 1004) }

MergeAnnotation ==
    <<Row(FALSE, Chr1, Transcript, 3, 9, <<".">>), Row(FALSE, Chr1, Transcript, 1, 3, <<"-">>)>>
MergeStream ==
    { Fragment(Chr1, s, s + 2, None, 1, st) : s \in {0, 2}, st \in {None, Some("Reverse")} }
    \cup { FragmentNew(Chr2, 0, 2) }

\* the fragments of a named stream
Fragments(name) ==
    CASE name = "small" -> SmallStream
      [] name = "add" -> AddStream
      [] name = "e2e" -> E2EStream
      [] name = "merge" -> MergeStream

\* bags of fragments: functions from the fragments present to their multiplicity
EmptyBag == <<>>
Copies(b, f) == IF f \in DOMAIN b THEN b[f] ELSE 0
BagAdd(b, f) == [g \in DOMAIN b \cup {f} |-> Copies(b, g) + (IF g = f THEN 1 ELSE 0)]
BagUnion(b1, b2) == [g \in DOMAIN b1 \cup DOMAIN b2 |-> Copies(b1, g) + Copies(b2, g)]
BagSize(b) ==
    LET RECURSIVE sz(_)
        sz(S) == IF S = {} THEN 0
                 ELSE LET f == CHOOSE x \in S : TRUE IN b[f] + sz(S \ {f})
    IN  sz(DOMAIN b)

----------------------------------------------------------------------------
(* The TSSe state machine: a promoter index built once from the annotation, *)
(* and accumulators that absorb fragments (add) and each other (add_from).  *)

InitOthersForTSSe ==
    /\ mitochondrial_dna = {}
    /\ summary = FragmentSummaryNew
    /\ fedlog = <<>>
    /\ qc = None
    /\ frag = None
    /\ line = None
    /\ parsed = None
    /\ insertions = None

InitTSSeWith(ann, w, name, accs) ==
    /\ annotation = ann
    /\ promoters = TssRegionsNew(read_tss(ann), w)
    /\ stream = name
    /\ tsse = [a \in accs |-> TSSeNew(TssRegionsNew(read_tss(ann), w))]
    /\ fed = [a \in accs |-> EmptyBag]
    /\ nops = 0
    /\ InitOthersForTSSe

InitTSSe ==
    \E ann \in SmallAnnotations, w \in HalfWindows : InitTSSeWith(ann, w, "small", TwoAccs)

InitAdd ==
    \E ann \in AddAnnotations, w \in HalfWindows : InitTSSeWith(ann, w, "add", {"A"})

InitE2E == InitTSSeWith(E2EAnnotation, 5, "e2e", TwoAccs)

InitMerge == \E w \in HalfWindows : InitTSSeWith(MergeAnnotation, w, "merge", ThreeAccs)

Add(a, f) ==
    /\ nops < MaxOps
    /\ tsse' = [tsse EXCEPT ![a] = TSSeAdd(@, promoters, f)]
    /\ fed' = [fed EXCEPT ![a] = BagAdd(@, f)]
    /\ nops' = nops + 1
    /\ UNCHANGED <<annotation, promoters, stream, summaryVars, recordVars>>

AddFrom(a, b) ==
    /\ nops < MaxOps
    /\ a # b
    /\ tsse' = [tsse EXCEPT ![a] = TSSeAddFrom(@, tsse[b])]
    /\ fed' = [fed EXCEPT ![a] = BagUnion(@, fed[b])]
    /\ nops' = nops + 1
    /\ UNCHANGED <<annotation, promoters, stream, summaryVars, recordVars>>

NextTSSe ==
    \/ \E a \in Accs, f \in Fragments(stream) : Add(a, f)
    \/ \E a \in Accs, b \in Accs : AddFrom(a, b)

NextAdd == \E a \in Accs, f \in Fragments(stream) : Add(a, f)

SpecAdd == InitAdd /\ [][NextAdd]_vars
SpecTSSe == InitTSSe /\ [][NextTSSe]_vars
SpecE2E == InitE2E /\ [][NextTSSe]_vars
SpecMerge == InitMerge /\ [][NextTSSe]_vars

----------------------------------------------------------------------------
(* Quantities the TSSe claims speak of, stated over the fragments absorbed *)

RECURSIVE SumFn(_, _)
SumFn(g, S) ==
    IF S = {} THEN 0
    ELSE LET x == CHOOSE y \in S : TRUE IN g[x] + SumFn(g, S \ {x})

Support(b) == DOMAIN b

\* a 1-bp insertion lies in a promoter window
InWindow(w, ins) == w.chrom = ins.chrom /\ w.start <= ins.start /\ ins.start < w.end

\* the (insertion, overlapping window) pairs of one fragment
Pairs(f) ==
    { pr \in (1..Len(to_insertions(f))) \X (1..Len(promoters.promoters)) :
        InWindow(promoters.promoters[pr[2]], to_insertions(f)[pr[1]]) }

\* the offset the specification gives for one pair
Offset(f, pr) ==
    LET w == promoters.promoters[pr[2]]
        ins == to_insertions(f)[pr[1]]
    IN  IF w.is_fwd THEN ins.start - w.start ELSE w.end - 1 - ins.start

\* the insertions of a fragment that overlap at least one window
Hitting(f) == { i \in 1..Len(to_insertions(f)) : \E pr \in Pairs(f) : pr[1] = i }

Weighted(b, g) == SumFn([f \in Support(b) |-> b[f] * g[f]], Support(b))

HistogramSum(t) == SumFn(t.counts, DOMAIN t.counts)

\* C1: after any sequence of add (and add_from) calls, n_total is the number
\* of insertions absorbed, n_overlapping the number of insertions that overlap
\* at least one promoter window (counted once however many windows they hit),
\* and every histogram bin k holds the number of (insertion, overlapping
\* window) pairs whose offset (insertion_start - window_start for a forward
\* window, window_end - 1 - insertion_start for a reverse one) is k, so the
\* histogram sum is the number of such pairs.
C1_AddCounts ==
    \A a \in Accs :
        LET b == fed[a]
            t == tsse[a]
        IN  /\ t.n_total = Weighted(b, [f \in Support(b) |-> Len(to_insertions(f))])
            /\ t.n_overlapping = Weighted(b, [f \in Support(b) |-> Cardinality(Hitting(f))])
            /\ \A k \in DOMAIN t.counts :
                  t.counts[k] =
                    Weighted(b, [f \in Support(b) |->
                                   Cardinality({pr \in Pairs(f) : Offset(f, pr) = k})])
            /\ HistogramSum(t) = Weighted(b, [f \in Support(b) |-> Cardinality(Pairs(f))])

\* an accumulator has absorbed an insertion that overlaps two windows, and
\* one that overlaps none
C1_Witness ==
    \E a \in Accs :
        /\ \E f \in Support(fed[a]) : \E i \in Hitting(f) :
              Cardinality({pr \in Pairs(f) : pr[1] = i}) >= 2
        /\ \E f \in Support(fed[a]) : Cardinality(Hitting(f)) < Len(to_insertions(f))
        /\ tsse[a].n_overlapping < HistogramSum(tsse[a])

SingleBag(f) == BagAdd(EmptyBag, f)

E2EHistogram == [k \in 0..10 |-> IF k \in {0, 9} THEN 1 ELSE 0]

E2ESetup ==
    /\ read_tss(annotation) = <<[chr |-> Chrom1, tss |-> 999, is_fwd |-> TRUE]>>
    /\ promoters.promoters =
          <<[chrom |-> Chrom1, start |-> 994, end |-> 1005, is_fwd |-> TRUE]>>
    /\ to_insertions(E2EFragment) =
          <<GenomicRange(Chrom1, 994, 995), GenomicRange(Chrom1, 1003, 1004)>>

\* C2 (as amended): with one forward transcript at chrom1:1000-2000 and
\* half_window 5, read_tss yields TSS 999 and the window is [994, 1005);
\* adding the strand-less fragment chrom1 994 1004 to a fresh TSSe derives
\* insertions at 994 and 1003, increments the histogram at offsets 0 and 9,
\* and leaves n_overlapping = 2 and n_total = 2.
C2_EndToEnd ==
    /\ E2ESetup
    /\ \A a \in Accs :
          (nops = 1 /\ fed[a] = SingleBag(E2EFragment))
            => tsse[a] = [counts |-> E2EHistogram, n_overlapping |-> 2, n_total |-> 2]

\* C2 as stated: the same scenario leaves n_overlapping = 1 and n_total = 2.
C2_Original ==
    /\ E2ESetup
    /\ \A a \in Accs :
          (nops = 1 /\ fed[a] = SingleBag(E2EFragment))
            => tsse[a] = [counts |-> E2EHistogram, n_overlapping |-> 1, n_total |-> 2]

C2_Witness == \E a \in Accs : nops = 1 /\ fed[a] = SingleBag(E2EFragment)

\* C3 as stated: in a TssRegions built from a single TSS at p with half-width
\* W, a single insertion exactly at p increments histogram index W, whether the
\* TSS is forward or reverse, and for a forward TSS an insertion at p - W
\* increments index 0.
C3_StrandMirroring ==
    Len(read_tss(annotation)) = 1 =>
        LET t == read_tss(annotation)[1]
            W == promoters.window_size
        IN  \A a \in Accs : \A f \in Fragments(stream) :
                (nops = 1 /\ fed[a] = SingleBag(f) /\ Len(to_insertions(f)) = 1
                          /\ to_insertions(f)[1].chrom = t.chr)
                  => /\ to_insertions(f)[1].start = t.tss
                          => (tsse[a].counts[W] = 1 /\ HistogramSum(tsse[a]) = 1)
                     /\ (t.is_fwd /\ to_insertions(f)[1].start = t.tss - W)
                          => (tsse[a].counts[0] = 1 /\ HistogramSum(tsse[a]) = 1)

Merge(x, y) == TSSeAddFrom(x, y)

RECURSIVE AddCopies(_, _, _)
AddCopies(t, f, n) == IF n = 0 THEN t ELSE AddCopies(TSSeAdd(t, promoters, f), f, n - 1)

\* one instance absorbing every fragment of a bag
RECURSIVE AddAll(_, _, _)
AddAll(t, b, S) ==
    IF S = {} THEN t
    ELSE LET f == CHOOSE x \in S : TRUE
         IN  AddAll(AddCopies(t, f, b[f]), b, S \ {f})

\* C4: add_from is the element-wise sum of histograms, n_total and
\* n_overlapping; merging A, B, C in the orders (A+B)+C, A+(B+C) and (B+A)+C
\* gives identical accumulators; and the merge of the accumulators of two
\* partitions equals one instance that absorbed all their fragments.
C4_Merge ==
    LET A == tsse["A"]
        B == tsse["B"]
        C == tsse["C"]
        AB == Merge(A, B)
    IN  /\ AB.n_total = A.n_total + B.n_total
        /\ AB.n_overlapping = A.n_overlapping + B.n_overlapping
        /\ DOMAIN AB.counts = DOMAIN A.counts
        /\ \A k \in DOMAIN A.counts : AB.counts[k] = A.counts[k] + B.counts[k]
        /\ Merge(AB, C) = Merge(A, Merge(B, C))
        /\ Merge(AB, C) = Merge(Merge(B, A), C)
        /\ AB = AddAll(TSSeNew(promoters), BagUnion(fed["A"], fed["B"]),
                       Support(BagUnion(fed["A"], fed["B"])))

\* three different non-empty accumulators, each with an overlapping insertion
C4_Witness ==
    /\ "C" \in Accs
    /\ \A a \in Accs : tsse[a].n_overlapping > 0
    /\ tsse["A"].n_total > tsse["A"].n_overlapping
    /\ tsse["A"] # tsse["B"]
    /\ tsse["B"] # tsse["C"]
    /\ tsse["A"] # tsse["C"]

\* C5: in every state reachable by add and add_from, n_overlapping <= n_total,
\* so the overlap rate lies in [0, 1] whenever n_total > 0.
C5_OverlapRate ==
    \A a \in Accs :
        /\ tsse[a].n_overlapping <= tsse[a].n_total
        /\ tsse[a].n_total > 0 =>
              LET r == overlap_rate(tsse[a])
              IN  r.kind = "num" /\ r.den > 0 /\ 0 <= r.num /\ r.num <= r.den

\* an accumulator that absorbed another one holds a rate strictly inside (0, 1)
C5_Witness ==
    /\ SumFn([a \in Accs |-> BagSize(fed[a])], Accs) > nops
    /\ \E a \in Accs : 0 < tsse[a].n_overlapping /\ tsse[a].n_overlapping < tsse[a].n_total

----------------------------------------------------------------------------
(* The FragmentSummary state machine: new, update*, get_qc (which consumes *)
(* the accumulator).                                                        *)

MitoSets == {{}, {ChrM}, {ChrM, Chr2}}

SummaryFragments ==
    { Fragment(c, 0, 1, None, n, None) : c \in {Chr1, Chr2, ChrM}, n \in 0..MaxCount }

InitSummary ==
    /\ mitochondrial_dna \in MitoSets
    /\ summary = FragmentSummaryNew
    /\ fedlog = <<>>
    /\ qc = None
    /\ annotation = <<>>
    /\ promoters = TssRegionsNew(<<>>, 0)
    /\ stream = "none"
    /\ tsse = <<>>
    /\ fed = <<>>
    /\ nops = 0
    /\ frag = None
    /\ line = None
    /\ parsed = None
    /\ insertions = None

Update(f) ==
    /\ qc = None
    /\ Len(fedlog) < MaxUpdates
    /\ summary' = update(summary, mitochondrial_dna, f)
    /\ fedlog' = Append(fedlog, f)
    /\ UNCHANGED <<mitochondrial_dna, qc, tsseVars, nops, recordVars>>

GetQc ==
    /\ qc = None
    /\ qc' = Some(get_qc(summary))
    /\ UNCHANGED <<mitochondrial_dna, summary, fedlog, tsseVars, nops, recordVars>>

NextSummary ==
    \/ \E f \in SummaryFragments : Update(f)
    \/ GetQc

SpecSummary == InitSummary /\ [][NextSummary]_vars

\* the fragments fed so far: M mitochondrial, N others, and the sum of their counts
FedMito == Cardinality({i \in 1..Len(fedlog) : fedlog[i].chrom \in mitochondrial_dna})
FedOther == Cardinality({i \in 1..Len(fedlog) : fedlog[i].chrom \notin mitochondrial_dna})
FedCountSum == SumFn([i \in 1..Len(fedlog) |-> fedlog[i].count], 1..Len(fedlog))

\* an f64 equals the rational a / b
IsRatio(x, a, b) == x.kind = "num" /\ x.den # 0 /\ x.num * b = a * x.den

\* C6: each update adds fragment.count to num_total_fragment and 1 (never
\* count) to exactly one of num_mitochondrial and num_unique_fragment; so after
\* N non-mitochondrial and M mitochondrial fragments num_unique_fragment = N,
\* num_mitochondrial = M, num_total_fragment is the sum of the counts,
\* frac_mitochondrial = M/(N+M) and frac_duplicated = 1 - (N+M)/sum of counts.
C6_SummaryCounters ==
    /\ summary.num_unique_fragment = FedOther
    /\ summary.num_mitochondrial = FedMito
    /\ summary.num_unique_fragment + summary.num_mitochondrial = Len(fedlog)
    /\ summary.num_total_fragment = FedCountSum
    /\ qc # None =>
          /\ Unwrap(qc).num_unique_fragment = FedOther
          /\ FedOther + FedMito > 0 =>
                IsRatio(Unwrap(qc).frac_mitochondrial, FedMito, FedOther + FedMito)
          /\ FedCountSum > 0 =>
                IsRatio(Unwrap(qc).frac_duplicated,
                        FedCountSum - (FedOther + FedMito), FedCountSum)

\* a finalized summary of both kinds of fragments, some of them duplicated
C6_Witness ==
    /\ qc # None
    /\ FedOther > 0
    /\ FedMito > 0
    /\ FedCountSum > Len(fedlog)

\* C7 as stated: frac_duplicated is NaN whenever num_total_fragment is zero,
\* and frac_mitochondrial is NaN whenever num_unique_fragment +
\* num_mitochondrial is zero.
C7_Original ==
    qc # None =>
        /\ summary.num_total_fragment = 0 => Unwrap(qc).frac_duplicated.kind = "NaN"
        /\ summary.num_unique_fragment + summary.num_mitochondrial = 0
              => Unwrap(qc).frac_mitochondrial.kind = "NaN"

\* C7 (as amended): get_qc always returns; frac_mitochondrial is NaN whenever
\* num_unique_fragment + num_mitochondrial is zero; frac_duplicated is NaN
\* when num_total_fragment is zero and no fragment was fed, and negative
\* infinity when num_total_fragment is zero but fragments (all of count 0)
\* were fed; a summary that received no fragment returns both ratios as NaN.
C7_ZeroDivision ==
    /\ qc = None => ENABLED GetQc
    /\ qc # None =>
          /\ summary.num_unique_fragment + summary.num_mitochondrial = 0
                => Unwrap(qc).frac_mitochondrial.kind = "NaN"
          /\ (summary.num_total_fragment = 0 /\ fedlog = <<>>)
                => Unwrap(qc).frac_duplicated.kind = "NaN"
          /\ (summary.num_total_fragment = 0 /\ fedlog # <<>>)
                => Unwrap(qc).frac_duplicated.kind = "-inf"
          /\ fedlog = <<>> =>
                /\ Unwrap(qc).frac_mitochondrial.kind = "NaN"
                /\ Unwrap(qc).frac_duplicated.kind = "NaN"

\* a summary finalized after fragments of count 0 only
C7_Witness ==
    /\ qc # None
    /\ fedlog # <<>>
    /\ summary.num_total_fragment = 0

----------------------------------------------------------------------------
(* The Fragment record: a fragment is converted to insertions, or formatted *)
(* and parsed back; a text line is parsed.                                 *)

RecordChroms == {<<"c">>, <<"c", Tab, "1">>}
RecordBarcodes == {None, Some(<<"b">>), Some(<<>>), Some(Dot), Some(<<"b", Tab>>)}
RecordCounts == {0, 1, 12}
Strands == {None, Some("Forward"), Some("Reverse")}

\* fragments satisfy start < end
RecordFragments ==
    { f \in { Fragment(c, st, en, b, n, sd) :
                c \in RecordChroms, st \in 0..MaxCoord, en \in 0..MaxCoord,
                b \in RecordBarcodes, n \in RecordCounts, sd \in Strands } :
        f.start < f.end }

\* the values tried in the k-th field of an input line
FieldsAt(k) ==
    CASE k = 1 -> {<<"c">>, <<>>}
      [] k = 2 -> {<<"7">>, <<"x">>, <<>>}
      [] k = 3 -> {<<"1", "2">>, <<"-">>, <<"0", "9">>}
      [] k = 4 -> {Dot, <<"b">>}
      [] k = 5 -> {Dot, <<"3">>, <<"x">>, <<>>}
      [] k = 6 -> {Dot, <<"+">>, <<"-">>, <<"x">>, <<>>}
      [] OTHER -> {<<"z">>}

RECURSIVE FieldLists(_)
FieldLists(n) ==
    IF n = 0 THEN {<<>>}
    ELSE { Append(p, t) : p \in FieldLists(n - 1), t \in FieldsAt(n) }

RECURSIVE JoinTab(_)
JoinTab(fields) ==
    IF Len(fields) = 1 THEN fields[1]
    ELSE fields[1] \o <<Tab>> \o JoinTab(Tail(fields))

InputLines == UNION { { JoinTab(p) : p \in FieldLists(n) } : n \in 1..MaxFields }

InitRecord ==
    /\ \/ frag \in { Some(f) : f \in RecordFragments } /\ line = None
       \/ frag = None /\ line \in { Some(l) : l \in InputLines }
    /\ parsed = None
    /\ insertions = None
    /\ annotation = <<>>
    /\ promoters = TssRegionsNew(<<>>, 0)
    /\ stream = "none"
    /\ tsse = <<>>
    /\ fed = <<>>
    /\ nops = 0
    /\ mitochondrial_dna = {}
    /\ summary = FragmentSummaryNew
    /\ fedlog = <<>>
    /\ qc = None

ToInsertions ==
    /\ frag # None
    /\ line = None
    /\ insertions = None
    /\ insertions' = Some(to_insertions(Unwrap(frag)))
    /\ UNCHANGED <<frag, line, parsed, tsseVars, nops, summaryVars>>

Format ==
    /\ frag # None
    /\ line = None
    /\ insertions = None
    /\ line' = Some(Display(Unwrap(frag)))
    /\ UNCHANGED <<frag, parsed, insertions, tsseVars, nops, summaryVars>>

Parse ==
    /\ line # None
    /\ parsed = None
    /\ parsed' = Some(from_str(Unwrap(line)))
    /\ UNCHANGED <<frag, line, insertions, tsseVars, nops, summaryVars>>

NextRecord == ToInsertions \/ Format \/ Parse

SpecRecord == InitRecord /\ [][NextRecord]_vars

OneBp(r, chrom, p) == r = GenomicRange(chrom, p, p + 1)

\* C8: for a fragment with start < end, to_insertions returns 1 or 2 intervals:
\* [start, start+1) then [end-1, end) without a strand, only [start, start+1)
\* for a forward strand, only [end-1, end) for a reverse strand; every interval
\* is 1 bp wide, on the fragment's chromosome and inside [start, end).
C8_Insertions ==
    insertions # None =>
        LET f == Unwrap(frag)
            r == Unwrap(insertions)
        IN  /\ f.start < f.end
            /\ Len(r) \in {1, 2}
            /\ f.strand = None =>
                  Len(r) = 2 /\ OneBp(r[1], f.chrom, f.start) /\ OneBp(r[2], f.chrom, f.end - 1)
            /\ f.strand = Some("Forward") => Len(r) = 1 /\ OneBp(r[1], f.chrom, f.start)
            /\ f.strand = Some("Reverse") => Len(r) = 1 /\ OneBp(r[1], f.chrom, f.end - 1)
            /\ \A i \in 1..Len(r) :
                  /\ r[i].chrom = f.chrom
                  /\ r[i].end = r[i].start + 1
                  /\ f.start <= r[i].start
                  /\ r[i].end <= f.end

\* a strand-less fragment longer than 1 bp has been converted
C8_Witness ==
    /\ insertions # None
    /\ Unwrap(frag).strand = None
    /\ Unwrap(frag).end > Unwrap(frag).start + 1
    /\ Unwrap(insertions)[1] # Unwrap(insertions)[2]

\* the number of tab-separated fields of the line
NumFields == Cardinality({i \in 1..Len(Unwrap(line)) : Unwrap(line)[i] = Tab}) + 1
Field(k) == Split(Unwrap(line))[k]

MissingErrors ==
    {"MissingReferenceSequenceName", "MissingStartPosition", "MissingEndPosition", "MissingName"}
InvalidErrors == {"InvalidStartPosition", "InvalidEndPosition", "InvalidStrand"}

IsMissingError(r) == ~r.ok /\ r.err \in MissingErrors
IsInvalidError(r) == ~r.ok /\ r.err \in InvalidErrors

\* a present field that cannot be parsed as its expected type
BadNumeric(k) == NumFields >= k /\ ~IsSome(ParseNat(Field(k)))
BadCount == NumFields >= 5 /\ Field(5) # Dot /\ ~IsSome(ParseNat(Field(5)))
BadStrand == NumFields >= 6 /\ Field(6) # Dot /\ Field(6) \notin {<<"+">>, <<"-">>}
SomeBadField == BadNumeric(2) \/ BadNumeric(3) \/ BadCount \/ BadStrand

\* the fragment a well-formed line of at least 4 fields stands for
Defaulted ==
    Fragment(Field(1), Unwrap(ParseNat(Field(2))), Unwrap(ParseNat(Field(3))),
             IF Field(4) = Dot THEN None ELSE Some(Field(4)),
             IF NumFields < 5 \/ Field(5) = Dot THEN 1 ELSE Unwrap(ParseNat(Field(5))),
             IF NumFields < 6 \/ Field(6) = Dot THEN None
             ELSE IF Field(6) = <<"+">> THEN Some("Forward") ELSE Some("Reverse"))

\* C9 as stated: the parse fails with a missing-field error exactly when the
\* line has fewer than 3 fields; a line of 3 or more fields fails only with an
\* invalid-numeric or invalid-strand error, when a present field cannot be
\* parsed.
C9_Original ==
    (frag = None /\ parsed # None) =>
        LET r == Unwrap(parsed)
        IN  /\ IsMissingError(r) <=> NumFields < 3
            /\ NumFields >= 3 => (r.ok \/ (IsInvalidError(r) /\ SomeBadField))

\* C9 (as amended): the parse fails with a missing-field error exactly when
\* the line has fewer than 4 fields (the barcode field is required) and the
\* start and end fields that are present parse; a line of 4 or more fields
\* fails only with an invalid-numeric or invalid-strand error, exactly when a
\* present field cannot be parsed; otherwise it succeeds, with barcode none
\* for ".", count 1 and strand none when absent or ".".
C9_Parse ==
    (frag = None /\ parsed # None) =>
        LET r == Unwrap(parsed)
        IN  /\ IsMissingError(r) <=> (NumFields < 4 /\ ~BadNumeric(2) /\ ~BadNumeric(3))
            /\ ~r.ok => (IsMissingError(r) \/ IsInvalidError(r))
            /\ NumFields >= 4 =>
                  /\ IsInvalidError(r) <=> SomeBadField
                  /\ ~SomeBadField => r = Ok(Defaulted)

\* a line of exactly 4 fields parsed to a fragment with the default count and strand
C9_Witness ==
    /\ frag = None
    /\ parsed # None
    /\ NumFields = 4
    /\ Unwrap(parsed).ok
    /\ Unwrap(parsed).val.count = 1
    /\ Unwrap(parsed).val.strand = None
    /\ Unwrap(parsed).val.barcode # None

HasTab(s) == \E i \in 1..Len(s) : s[i] = Tab

\* C10 as stated: every fragment with barcode and strand set parses back from
\* its formatted line to an equal fragment; a fragment without a strand is
\* formatted to exactly 5 fields and parses back to the same fragment.
C10_Original ==
    (frag # None /\ parsed # None) =>
        LET f == Unwrap(frag)
        IN  /\ (IsSome(f.barcode) /\ IsSome(f.strand)) => Unwrap(parsed) = Ok(f)
            /\ f.strand = None => (NumFields = 5 /\ Unwrap(parsed) = Ok(f))

\* the fragments whose text fields survive the tab-separated encoding
Encodable(f) ==
    /\ ~HasTab(f.chrom)
    /\ IsSome(f.barcode) => (~HasTab(Unwrap(f.barcode)) /\ Unwrap(f.barcode) # Dot)

\* C10 (as amended): for every fragment whose chrom and barcode contain no tab
\* and whose barcode is not the literal ".", parse(format(fragment)) succeeds
\* and equals the fragment when barcode, count and strand are set; and when the
\* strand is absent the line has exactly 5 fields and parses back to the same
\* fragment.
C10_RoundTrip ==
    (frag # None /\ parsed # None /\ Encodable(Unwrap(frag))) =>
        LET f == Unwrap(frag)
        IN  /\ (IsSome(f.barcode) /\ IsSome(f.strand)) => Unwrap(parsed) = Ok(f)
            /\ f.strand = None => (NumFields = 5 /\ Unwrap(parsed) = Ok(f))

\* a fragment with every field set and multi-digit numbers has made the round trip
C10_Witness ==
    /\ frag # None
    /\ parsed # None
    /\ Encodable(Unwrap(frag))
    /\ IsSome(Unwrap(frag).barcode)
    /\ IsSome(Unwrap(frag).strand)
    /\ Unwrap(frag).count > 9
    /\ Unwrap(frag).end > 9
    /\ NumFields = 6
    /\ Unwrap(parsed) = Ok(Unwrap(frag))

====
